---- MODULE Spec2Model ----
(***************************************************************************)
(* Real Estate Intelligence production server (src/server-production.js). *)
(*                                                                         *)
(* The process is modelled as a state machine: the startup sequence, the   *)
(* Express middleware chain, and one handler per route.  Every `await` of  *)
(* a handler is a suspension point, so a handler is a small process whose  *)
(* program counter names the collaborator call it is waiting for.  The     *)
(* collaborators (Firestore, Cloud Storage, Vertex AI, Sheets, Drive) are  *)
(* modelled by their call contracts; every call may succeed or reject.     *)
(*                                                                         *)
(* JavaScript strings that the code concatenates, joins or parses are      *)
(* sequences of tokens (the empty string is << >>); an absent property of  *)
(* a JSON object is a key that is not in the DOMAIN of the function that   *)
(* models the object.  The number 1.0 is written 1.                        *)
(***************************************************************************)
EXTENDS Integers, Sequences, FiniteSets, TLC

VARIABLES
    phase,          \* "starting", "initialized", "listening", "exited"
    servicesReady,  \* result of initializeServices()
    clients,        \* the module-level handles that have been assigned
    exitCode,       \* status passed to process.exit, -1 while running
    nodeEnv,        \* CONFIG.nodeEnv
    memory,         \* Firestore collection 'memory'
    properties,     \* Firestore collection 'properties'
    files,          \* names of the objects in the bucket
    clock,          \* Firestore server time
    handlers,       \* the handlers in flight, by slot
    sent            \* the response written by the latest step (<< >> if none)

vars == << phase, servicesReady, clients, exitCode, nodeEnv, memory,
           properties, files, clock, handlers, sent >>

----------------------------------------------------------------------------
(* Bounds of the model *)

MaxAdds == 1     \* documents the store accepts in one run, then every add rejects
SeedSize == 11   \* documents 'memory' may hold when the process starts

----------------------------------------------------------------------------
(* JavaScript values *)

EmptyObj == [k \in {} |-> ""]

Has(o, k) == k \in DOMAIN o

\* destructuring with a default: the default applies to undefined only
OrDefault(o, k, d) == IF Has(o, k) THEN o[k] ELSE d

\* Array.prototype.join over an array of token strings
RECURSIVE Join(_, _)
Join(parts, sep) ==
    IF parts = << >> THEN << >>
    ELSE IF Len(parts) = 1 THEN Head(parts)
    ELSE Head(parts) \o sep \o Join(Tail(parts), sep)

Digits == << "0", "1", "2", "3", "4", "5", "6", "7", "8", "9" >>

IsDigit(c) == \E i \in 1..10 : Digits[i] = c

DigitVal(c) == (CHOOSE i \in 1..10 : Digits[i] = c) - 1

NaN == [nan |-> TRUE, val |-> 0]

Num(n) == [nan |-> FALSE, val |-> n]

RECURSIVE SkipSpace(_)
SkipSpace(s) == IF s # << >> /\ Head(s) = " " THEN SkipSpace(Tail(s)) ELSE s

RECURSIVE DigitPrefix(_)
DigitPrefix(s) ==
    IF s # << >> /\ IsDigit(Head(s)) THEN << Head(s) >> \o DigitPrefix(Tail(s))
    ELSE << >>

RECURSIVE DecimalValue(_, _)
DecimalValue(ds, acc) ==
    IF ds = << >> THEN acc
    ELSE DecimalValue(Tail(ds), 10 * acc + DigitVal(Head(ds)))

HexDigits == << "0", "1", "2", "3", "4", "5", "6", "7", "8", "9",
                "a", "b", "c", "d", "e", "f" >>

UpperHexDigits == << "0", "1", "2", "3", "4", "5", "6", "7", "8", "9",
                     "A", "B", "C", "D", "E", "F" >>

IsHexDigit(c) == \E i \in 1..16 : HexDigits[i] = c \/ UpperHexDigits[i] = c

HexVal(c) == (CHOOSE i \in 1..16 : HexDigits[i] = c \/ UpperHexDigits[i] = c) - 1

RECURSIVE HexPrefix(_)
HexPrefix(s) ==
    IF s # << >> /\ IsHexDigit(Head(s)) THEN << Head(s) >> \o HexPrefix(Tail(s))
    ELSE << >>

RECURSIVE HexValue(_, _)
HexValue(ds, acc) ==
    IF ds = << >> THEN acc
    ELSE HexValue(Tail(ds), 16 * acc + HexVal(Head(ds)))

\* parseInt(string) with no radix: leading white space is skipped, one sign
\* is accepted, a "0x" prefix selects base 16, the longest prefix of digits
\* is converted, and the result is NaN if there is no digit.
ParseInt(s) ==
    LET t == SkipSpace(s)
        neg == t # << >> /\ Head(t) = "-"
        u == IF t # << >> /\ Head(t) \in {"-", "+"} THEN Tail(t) ELSE t
        hex == Len(u) >= 2 /\ u[1] = "0" /\ u[2] \in {"x", "X"}
        ds == IF hex THEN HexPrefix(SubSeq(u, 3, Len(u))) ELSE DigitPrefix(u)
        mag == IF hex THEN HexValue(ds, 0) ELSE DecimalValue(ds, 0)
    IN  IF ds = << >> THEN NaN
        ELSE Num(IF neg THEN 0 - mag ELSE mag)

\* String(10): the default `limit = 10` is a number, parseInt converts it
\* to a string first
DefaultSearchLimit == << "1", "0" >>

DefaultPropertiesLimit == << "5", "0" >>

DefaultModel == "gemini-2.0-flash-exp"

IsoNow == "<ISO-8601 now>"

----------------------------------------------------------------------------
(* The document store: a collection is a set of documents (records with an *)
(* `id`); the calls are add, query (where / orderBy / limit) and count.    *)

\* FieldValue.serverTimestamp(): a sentinel the server replaces on write
ServerTimestamp == [sentinel |-> "serverTimestamp"]

\* the keys under which this program writes the sentinel
SentinelKeys == {"timestamp", "updatedAt"}

UsedIds(coll) == {d.docId : d \in coll}

\* number of documents this run has added to `coll`
Added(coll) == Cardinality({d \in coll : d.docId > SeedSize})

\* variant: the document is written under a fixed id
NextDocIdReused(coll) == SeedSize

\* the auto-id the store gives the next document of `coll` (ids are opaque
\* and unique; the seed documents hold the ids 1..SeedSize)
NextDocId(coll) == SeedSize + Added(coll) + 1

\* the document stored by collection.add(data) under docId, written at ts
StoredDoc(data, docId, ts) ==
    [k \in DOMAIN data \cup {"docId"} |->
        IF k = "docId" THEN docId
        ELSE IF k \in SentinelKeys THEN ts
        ELSE data[k]]

\* object spread {...a, ...b}
Merge(a, b) ==
    [k \in DOMAIN a \cup DOMAIN b |-> IF k \in DOMAIN b THEN b[k] ELSE a[k]]

\* doc.data()
DocData(d) == [k \in DOMAIN d \ {"docId"} |-> d[k]]

\* docs.map(doc => ({ id: doc.id, ...doc.data() }))
SnapshotDoc(d) == Merge([id |-> d.docId], DocData(d))

SnapshotDocs(docs) == [i \in DOMAIN docs |-> SnapshotDoc(docs[i])]

Range(f) == {f[i] : i \in DOMAIN f}

\* one where() clause: [field, op, value]
Matches(d, w) ==
    /\ Has(d, w.field)
    /\ IF w.op = "==" THEN d[w.field] = w.value
       ELSE w.value \in Range(d[w.field])      \* array-contains

\* descending order of orderBy(field, 'desc'); ties by document id,
\* in the same direction
Before(a, b, field) ==
    \/ a[field] > b[field]
    \/ a[field] = b[field] /\ a.docId > b.docId

RECURSIVE OrderDesc(_, _)
OrderDesc(S, field) ==
    IF S = {} THEN << >>
    ELSE LET m == CHOOSE d \in S : \A e \in S \ {d} : Before(d, e, field)
         IN  << m >> \o OrderDesc(S \ {m}, field)

\* default order of a query without orderBy: ascending document id
RECURSIVE OrderById(_)
OrderById(S) ==
    IF S = {} THEN << >>
    ELSE LET m == CHOOSE d \in S : \A e \in S \ {d} : d.docId < e.docId
         IN  << m >> \o OrderById(S \ {m})

Take(seq, n) == SubSeq(seq, 1, IF n < Len(seq) THEN n ELSE Len(seq))

\* q = [wheres: sequence of clauses, orderBy: field or "", limit: integer]
\* orderBy(field) leaves out the documents that lack the field
RunQuery(coll, q) ==
    LET hit == {d \in coll : \A i \in DOMAIN q.wheres : Matches(d, q.wheres[i])}
        ordered == IF q.orderBy = "" THEN OrderById(hit)
                   ELSE OrderDesc({d \in hit : Has(d, q.orderBy)}, q.orderBy)
    IN  Take(ordered, q.limit)

\* the store rejects a negative limit when the query is run
QueryRejected(q) == q.limit < 0

\* documents the memory collection may hold when the process starts: written
\* earlier by POST /api/memory/store and by POST /api/ai/query
SeedDoc(i) ==
    IF i % 4 = 0
    THEN [docId |-> i, type |-> "interaction", query |-> << "q" >>,
          response |-> << "answer" >>, model |-> DefaultModel,
          timestamp |-> (i + 1) \div 2, relevanceScore |-> 1,
          contextUsed |-> FALSE]
    ELSE [docId |-> i, type |-> IF i % 3 = 0 THEN "lead" ELSE "note",
          content |-> << "c0" >>,
          tags |-> IF i % 2 = 0 THEN << "hot" >> ELSE << >>,
          metadata |-> EmptyObj, timestamp |-> (i + 1) \div 2,
          relevanceScore |-> 1, accessCount |-> 0]

SeedMemory == {SeedDoc(i) : i \in 1..SeedSize}

\* documents the properties collection may hold when the process starts,
\* written earlier by POST /api/firestore/properties; n of them hold the ids
\* SeedSize - n + 1 .. SeedSize
SeedProperty(i, n) ==
    [docId |-> SeedSize - n + i, address |-> "<address>", city |-> "Austin",
     zipCode |-> IF i % 2 = 0 THEN "78701" ELSE "78702",
     timestamp |-> 0, updatedAt |-> 0]

SeedProperties(n) == {SeedProperty(i, n) : i \in 1..n}

\* collection sizes around the default limit of GET /api/firestore/properties
PropertySeedSizes ==
    {0, ParseInt(DefaultPropertiesLimit).val - 1, ParseInt(DefaultPropertiesLimit).val}

----------------------------------------------------------------------------
(* Requests *)

Paths == {"/health", "/api/status", "/api/ai/query", "/api/memory/store",
          "/api/memory/search", "/api/storage/upload", "/api/storage/files",
          "/api/sheets/investor-data", "/api/drive/files",
          "/api/firestore/properties", "/api/real-estate/overview",
          "/api/nope"}

\* json: what express.json() makes of the body ("ok": parsed, or no body)
Req(m, p, j, b, q) ==
    [method |-> m, path |-> p, json |-> j, body |-> b, query |-> q]

\* an optional property: absent, or present with one of the values vs
Opt(k, vs) == {EmptyObj} \cup {[x \in {k} |-> v] : v \in vs}

\* requests with no body and no query string
PlainRequests ==
    {Req("GET", p, "ok", EmptyObj, EmptyObj) :
        p \in Paths \ {"/api/ai/query", "/api/memory/store", "/api/storage/upload"}}
    \cup {Req("POST", p, "ok", EmptyObj, EmptyObj) :
            p \in {"/api/ai/query", "/api/memory/store", "/api/storage/upload",
                   "/api/firestore/properties", "/api/nope", "/health"}}
    \cup {Req("GET", "/api/ai/query", "ok", EmptyObj, EmptyObj),
          Req("HEAD", "/health", "ok", EmptyObj, EmptyObj),
          Req("HEAD", "/api/memory/store", "ok", EmptyObj, EmptyObj),
          Req("GET", "/Health/", "ok", EmptyObj, EmptyObj),
          Req("OPTIONS", "/health", "ok", EmptyObj, EmptyObj),
          Req("OPTIONS", "/api/nope", "ok", EmptyObj, EmptyObj)}

BadBodyRequests ==
    {Req("POST", "/api/ai/query", "malformed", EmptyObj, EmptyObj),
     Req("POST", "/api/nope", "malformed", EmptyObj, EmptyObj),
     Req("POST", "/api/memory/store", "too_large", EmptyObj, EmptyObj),
     Req("OPTIONS", "/api/ai/query", "malformed", EmptyObj, EmptyObj)}

AiQueryBodies ==
    {[query |-> << >>], [useMemory |-> FALSE],
     [query |-> << "q" >>],
     [query |-> << "q" >>, useMemory |-> TRUE],
     [query |-> << "q" >>, useMemory |-> FALSE],
     [useMemory |-> TRUE, model |-> "gemini-pro"]}

MemoryStoreBodies ==
    {[type |-> "note"], [content |-> << "c1" >>],
     [type |-> "", content |-> << "c1" >>],
     [type |-> "note", content |-> << >>, tags |-> << "hot" >>],
     [type |-> "note", content |-> << "c1" >>],
     [type |-> "note", content |-> << "c1" >>, tags |-> << "hot" >>],
     [type |-> "lead", content |-> << "c1" >>, tags |-> << "hot", "new" >>,
      metadata |-> [source |-> "mls"]]}

MemorySearchQueries ==
    {[type |-> "note"], [type |-> ""], [tags |-> "hot"], [limit |-> << >>],
     [limit |-> << "0" >>], [limit |-> << "x" >>], [limit |-> << "-", "1" >>],
     [limit |-> << "1", "2" >>], [limit |-> << " ", "3", "x" >>],
     [type |-> "note", limit |-> << "1" >>],
     [type |-> "note", limit |-> << "3" >>],
     [type |-> "interaction", limit |-> << "0", "x", "2" >>],
     [type |-> "lead", tags |-> "hot"],
     [type |-> "note", tags |-> "hot", limit |-> << "2" >>]}

StorageUploadBodies ==
    {[fileName |-> "a.json"], [content |-> << "c1" >>],
     [fileName |-> "", content |-> << "c1" >>],
     [fileName |-> "a.json", content |-> << "c1" >>],
     [fileName |-> "a.json", content |-> << "c1" >>,
      metadata |-> [contentType |-> "text/plain"]]}

PropertiesQueries ==
    {[city |-> "Austin"], [zipCode |-> "78701"],
     [city |-> "Austin", zipCode |-> "78701"],
     [city |-> "Dallas", limit |-> << "1" >>],
     [city |-> "Austin", limit |-> << "1" >>],
     [limit |-> << "x" >>]}

PropertiesBodies ==
    {[address |-> "1 Main St", city |-> "Austin"],
     [city |-> "Austin", zipCode |-> "78701", timestamp |-> "2020-01-01"]}

Requests ==
    PlainRequests \cup BadBodyRequests
    \cup {Req("POST", "/api/ai/query", "ok", b, EmptyObj) : b \in AiQueryBodies}
    \cup {Req("POST", "/api/memory/store", "ok", b, EmptyObj) : b \in MemoryStoreBodies}
    \cup {Req("GET", "/api/memory/search", "ok", EmptyObj, q) : q \in MemorySearchQueries}
    \cup {Req("POST", "/api/storage/upload", "ok", b, EmptyObj) : b \in StorageUploadBodies}
    \cup {Req("GET", "/api/firestore/properties", "ok", EmptyObj, q) : q \in PropertiesQueries}
    \cup {Req("POST", "/api/firestore/properties", "ok", b, EmptyObj) : b \in PropertiesBodies}

\* the routes registered with app.get / app.post
Route(method, path) ==
    CASE method = "GET" /\ path = "/health" -> "health"
      [] method = "GET" /\ path = "/api/status" -> "status"
      [] method = "POST" /\ path = "/api/ai/query" -> "aiQuery"
      [] method = "POST" /\ path = "/api/memory/store" -> "memoryStore"
      [] method = "GET" /\ path = "/api/memory/search" -> "memorySearch"
      [] method = "POST" /\ path = "/api/storage/upload" -> "storageUpload"
      [] method = "GET" /\ path = "/api/storage/files" -> "storageFiles"
      [] method = "GET" /\ path = "/api/sheets/investor-data" -> "sheets"
      [] method = "GET" /\ path = "/api/drive/files" -> "driveFiles"
      [] method = "GET" /\ path = "/api/firestore/properties" -> "propertiesList"
      [] method = "POST" /\ path = "/api/firestore/properties" -> "propertiesCreate"
      [] method = "GET" /\ path = "/api/real-estate/overview" -> "overview"
      [] OTHER -> "notFound"

\* the router serves a HEAD request with the GET route of its path
RouteMethod(method) == IF method = "HEAD" THEN "GET" ELSE method

\* the router matches paths case-insensitively and ignores one trailing slash
\* (the app sets neither 'case sensitive routing' nor 'strict routing')
RoutePath(path) == IF path = "/Health/" THEN "/health" ELSE path

\* the middleware chain in registration order: cors() answers every OPTIONS
\* request itself; express.json() passes a body it cannot parse, or one over
\* the size limit, to the error middleware; then the routes; then the 404
\* handler
Dispatch(r) ==
    IF r.method = "OPTIONS" THEN "preflight"
    ELSE IF r.json # "ok" THEN "fallback"
    ELSE Route(RouteMethod(r.method), RoutePath(r.path))

\* the requests the chain hands to `target`
RequestsFor(target) == {r \in Requests : Dispatch(r) = target}

PreflightRequests == RequestsFor("preflight")
FallbackRequests == RequestsFor("fallback")
NotFoundRequests == RequestsFor("notFound")
HealthRequests == RequestsFor("health")
StatusRequests == RequestsFor("status")
AiQueryRequests == RequestsFor("aiQuery")
MemoryStoreRequests == RequestsFor("memoryStore")
MemorySearchRequests == RequestsFor("memorySearch")
StorageUploadRequests == RequestsFor("storageUpload")
StorageFilesRequests == RequestsFor("storageFiles")
SheetsRequests == RequestsFor("sheets")
DriveFilesRequests == RequestsFor("driveFiles")
PropertiesListRequests == RequestsFor("propertiesList")
PropertiesCreateRequests == RequestsFor("propertiesCreate")
OverviewRequests == RequestsFor("overview")

----------------------------------------------------------------------------
(* Handlers in flight *)

Idle == [pc |-> "idle"]

Slots == DOMAIN handlers

\* calls: the collaborator calls the handler has issued, in order;
\* results: how each call that has returned ended ("ok" or "rejected")
Running(route, req, pc, loc, calls) ==
    [route |-> route, req |-> req, pc |-> pc, loc |-> loc, calls |-> calls,
     results |-> << >>]

\* a response together with the request and the handler that wrote it;
\* body is the argument of res.json (its content is not transmitted in
\* answer to a HEAD request)
Exchange(route, req, calls, results, loc, status, body) ==
    [route |-> route, req |-> req, calls |-> calls, results |-> results,
     loc |-> loc, status |-> status, body |-> body]

HasFreeSlot == \E i \in Slots : handlers[i] = Idle

FreeSlot == CHOOSE i \in Slots : handlers[i] = Idle

\* a request is taken up while the server listens and a handler is free
Accepting == phase = "listening" /\ HasFreeSlot

\* the store accepts the write (it rejects every add beyond its bound)
AcceptsAdd == Added(memory) + Added(properties) < MaxAdds

\* res.json(body) / res.status(n).json(body) before any call is issued
Respond(route, req, loc, status, body) ==
    sent' = << Exchange(route, req, << >>, << >>, loc, status, body) >>

\* the pending call of slot i ends with `result`; the handler writes its
\* response and ends
Finish(i, result, status, body) ==
    LET h == handlers[i]
    IN  /\ sent' = << Exchange(h.route, h.req, h.calls, Append(h.results, result),
                               h.loc, status, body) >>
        /\ handlers' = [handlers EXCEPT ![i] = Idle]

\* variant: the next call is issued without awaiting the pending one
SuspendNoWait(i, result, pc, loc, call) ==
    /\ handlers' = [handlers EXCEPT ![i].pc = pc, ![i].loc = loc,
                                    ![i].calls = Append(@, call)]
    /\ sent' = << >>

\* the pending call of slot i ends with `result`; the handler issues `call`
\* and suspends at pc
Suspend(i, result, pc, loc, call) ==
    /\ handlers' = [handlers EXCEPT ![i].pc = pc, ![i].loc = loc,
                                    ![i].calls = Append(@, call),
                                    ![i].results = Append(@, result)]
    /\ sent' = << >>

Start(r, route, pc, loc, call) ==
    /\ handlers' = [handlers EXCEPT ![FreeSlot] = Running(route, r, pc, loc, << call >>)]
    /\ sent' = << >>

At(i, route, pc) ==
    /\ phase = "listening"
    /\ handlers[i] # Idle
    /\ handlers[i].route = route
    /\ handlers[i].pc = pc

store == << memory, properties, files, clock >>

process == << phase, servicesReady, clients, exitCode, nodeEnv >>

----------------------------------------------------------------------------
(* Startup and shutdown *)

NodeEnvs == {"production", "development", "staging"}

\* the statements of initializeServices that construct a client, in order
InitSteps == << "firestore", "storage", "bucket", "vertex", "auth", "sheets", "drive" >>

\* the module-level handles assigned when statement failAt throws
\* (failAt = 0: none throws); `auth` is a local
HandlesAssigned(failAt) ==
    {InitSteps[k] : k \in {j \in DOMAIN InitSteps : failAt = 0 \/ j < failAt}}
        \ {"auth"}

\* variant: the catch block returns true as well
InitializeResultTrue(failAt) == TRUE

\* return true at the end of the try block, return false from the catch
InitializeResult(failAt) == failAt = 0

InitializeServices ==
    /\ phase = "starting"
    /\ \E failAt \in 0..Len(InitSteps) :
        /\ clients' = HandlesAssigned(failAt)
        /\ servicesReady' = InitializeResult(failAt)
    /\ phase' = "initialized"
    /\ sent' = << >>
    /\ UNCHANGED << exitCode, nodeEnv, store, handlers >>

\* if (!servicesReady) process.exit(1)
ExitsOnFailure(ready) == ~ready

ProcessExit(code) ==
    /\ phase' = "exited"
    /\ exitCode' = code
    /\ handlers' = [i \in Slots |-> Idle]
    /\ sent' = << >>
    /\ UNCHANGED << servicesReady, clients, nodeEnv, store >>

StartServerExit ==
    /\ phase = "initialized"
    /\ ExitsOnFailure(servicesReady)
    /\ ProcessExit(1)

\* app.listen(PORT, ...)
StartServerListen ==
    /\ phase = "initialized"
    /\ ~ExitsOnFailure(servicesReady)
    /\ phase' = "listening"
    /\ sent' = << >>
    /\ UNCHANGED << servicesReady, clients, exitCode, nodeEnv, store, handlers >>

\* startServer().catch(err => process.exit(1)): app.listen throws
StartServerThrows ==
    /\ phase = "initialized"
    /\ ~ExitsOnFailure(servicesReady)
    /\ ProcessExit(1)

\* SIGTERM or SIGINT
Signal ==
    /\ phase = "listening"
    /\ ProcessExit(0)

----------------------------------------------------------------------------
(* Middleware, the error middleware and the 404 handler *)

\* cors(): an OPTIONS request is answered 204 with no body
CorsPreflight ==
    /\ Accepting
    /\ \E r \in PreflightRequests :
        /\ Respond("preflight", r, EmptyObj, 204, EmptyObj)
    /\ UNCHANGED << process, store, handlers >>

BodyErrorMessage(r) ==
    IF r.json = "too_large" THEN "request entity too large"
    ELSE "Unexpected token in JSON"

\* variant: the message is always included
FallbackBodyVerbose(env, message) ==
    [success |-> FALSE, error |-> "Internal server error",
     message |-> message, timestamp |-> IsoNow]

\* message: CONFIG.nodeEnv === 'development' ? err.message : undefined
\* (JSON.stringify leaves out a property whose value is undefined)
FallbackBody(env, message) ==
    IF env = "development"
    THEN [success |-> FALSE, error |-> "Internal server error",
          message |-> message, timestamp |-> IsoNow]
    ELSE [success |-> FALSE, error |-> "Internal server error",
          timestamp |-> IsoNow]

\* app.use((err, req, res, next) => ...)
GlobalFallback ==
    /\ Accepting
    /\ \E r \in FallbackRequests :
        /\ Respond("fallback", r, [message |-> BodyErrorMessage(r)], 500,
                   FallbackBody(nodeEnv, BodyErrorMessage(r)))
    /\ UNCHANGED << process, store, handlers >>

\* variant: the requested path is left out
NotFoundBodyNoPath(r) ==
    [success |-> FALSE, error |-> "Endpoint not found", timestamp |-> IsoNow]

NotFoundBody(r) ==
    [success |-> FALSE, error |-> "Endpoint not found", path |-> r.path,
     timestamp |-> IsoNow]

\* app.use((req, res) => res.status(404).json(...))
NotFound ==
    /\ Accepting
    /\ \E r \in NotFoundRequests :
        /\ Respond("notFound", r, EmptyObj, 404, NotFoundBody(r))
    /\ UNCHANGED << process, store, handlers >>

----------------------------------------------------------------------------
(* GET /health, GET /api/status *)

HealthBody(env) ==
    [status |-> "healthy", timestamp |-> IsoNow,
     service |-> "Real Estate Intelligence", version |-> "5.0.0",
     uptime |-> "<uptime>", memory |-> "<memoryUsage>", environment |-> env]

\* variant: the liveness route probes the document store first
HealthProbing ==
    /\ Accepting
    /\ \E r \in HealthRequests :
        /\ Start(r, "health", "probeFirestore", EmptyObj, "firestore._health_check.get")
    /\ UNCHANGED << process, store >>

Health ==
    /\ Accepting
    /\ \E r \in HealthRequests :
        /\ Respond("health", r, EmptyObj, 200, HealthBody(nodeEnv))
    /\ UNCHANGED << process, store, handlers >>

InitialComponents ==
    [api |-> "healthy", firestore |-> "checking", storage |-> "checking",
     vertexAI |-> "checking", sheets |-> "checking", drive |-> "checking"]

\* variant: an empty catch block
ProbeResultUnset(ok) == IF ok THEN "active" ELSE "checking"

\* try { await probe; 'active' } catch (e) { 'error' }
ProbeResult(ok) == IF ok THEN "active" ELSE "error"

\* components.x = handle ? 'active' : 'error'
HandleResult(handle) == IF handle \in clients THEN "active" ELSE "error"

StatusBody(components, env) ==
    [status |-> "operational", timestamp |-> IsoNow, components |-> components,
     config |-> [project |-> "<project>", location |-> "<location>",
                 bucket |-> "<bucket>", environment |-> env],
     uptime |-> "<uptime>"]

StatusBegin ==
    /\ Accepting
    /\ \E r \in StatusRequests :
        /\ Start(r, "status", "probeFirestore", [components |-> InitialComponents],
                 "firestore._health_check.get")
    /\ UNCHANGED << process, store >>

StatusFirestoreReturns ==
  \E i \in Slots :
    /\ At(i, "status", "probeFirestore")
    /\ \E ok \in BOOLEAN :
        Suspend(i, IF ok THEN "ok" ELSE "rejected", "probeStorage",
                [components |-> [handlers[i].loc.components
                                    EXCEPT !.firestore = ProbeResult(ok)]],
                "bucket.exists")
    /\ UNCHANGED << process, store >>

StatusStorageReturns ==
  \E i \in Slots :
    /\ At(i, "status", "probeStorage")
    /\ \E ok \in BOOLEAN :
        LET components == [handlers[i].loc.components
                              EXCEPT !.storage = ProbeResult(ok),
                                     !.vertexAI = HandleResult("vertex"),
                                     !.sheets = HandleResult("sheets"),
                                     !.drive = HandleResult("drive")]
        IN  Finish(i, IF ok THEN "ok" ELSE "rejected", 200,
                   StatusBody(components, nodeEnv))
    /\ UNCHANGED << process, store >>

----------------------------------------------------------------------------
(* POST /api/ai/query *)

\* !o[k] for a string property whose empty value is `empty`
Falsy(o, k, empty) == ~Has(o, k) \/ o[k] = empty

ContextLimit == 5

\* firestore.collection('memory').orderBy('timestamp', 'desc').limit(5)
ContextQuery == [wheres |-> << >>, orderBy |-> "timestamp", limit |-> ContextLimit]

\* m.content, as join() sees it: undefined contributes the empty string
ContentOf(m) == IF Has(m, "content") THEN m.content ELSE << >>

\* memoriesUsed.map(m => m.content).join('\n\n')
ContextOf(memoriesUsed) ==
    Join([i \in DOMAIN memoriesUsed |-> ContentOf(memoriesUsed[i])], << "\n\n" >>)

\* context ? `Context from memory:\n${context}\n\nUser query: ${query}` : query
BuildPrompt(context, query) ==
    IF context # << >>
    THEN << "Context from memory:\n" >> \o context \o << "\n\nUser query: " >> \o query
    ELSE query

\* if (!query)
AiQueryInvalid(body) == Falsy(body, "query", << >>)

\* variant: the flag of the request is ignored
FetchesMemoryAlways(body) == TRUE

\* if (useMemory)
FetchesMemory(body) == OrDefault(body, "useMemory", TRUE)

\* memoriesTotal: the size of the collection when the fetch ran (not a
\* variable of the code; kept to state properties of the response)
AiLocals(body) ==
    [query |-> OrDefault(body, "query", << "undefined" >>),
     model |-> OrDefault(body, "model", DefaultModel),
     memoriesUsed |-> << >>, context |-> << >>, prompt |-> << >>,
     response |-> << >>, memoriesTotal |-> 0]

\* the locals once the context is settled and the prompt is built
WithContext(loc, memoriesUsed, context) ==
    [loc EXCEPT !.memoriesUsed = memoriesUsed, !.context = context,
                !.prompt = BuildPrompt(context, loc.query)]

AiQueryBegin ==
    /\ Accepting
    /\ \E r \in AiQueryRequests :
        /\ IF AiQueryInvalid(r.body)
           THEN /\ Respond("aiQuery", r, EmptyObj, 400,
                           [success |-> FALSE, error |-> "Query parameter required"])
                /\ UNCHANGED handlers
           ELSE IF FetchesMemory(r.body)
                THEN Start(r, "aiQuery", "fetch", AiLocals(r.body),
                           "firestore.memory.get")
                ELSE Start(r, "aiQuery", "generate",
                           WithContext(AiLocals(r.body), << >>, << >>),
                           "vertex.generateContent")
    /\ UNCHANGED << process, store >>

\* the memory fetch resolves, or rejects and is caught
AiQueryFetchReturns ==
  \E i \in Slots :
    /\ At(i, "aiQuery", "fetch")
    /\ \/ LET memoriesUsed == SnapshotDocs(RunQuery(memory, ContextQuery))
          IN  Suspend(i, "ok", "generate",
                      WithContext([handlers[i].loc EXCEPT !.memoriesTotal = Cardinality(memory)],
                                  memoriesUsed, ContextOf(memoriesUsed)),
                      "vertex.generateContent")
       \/ Suspend(i, "rejected", "generate",
                  WithContext(handlers[i].loc, << >>, << >>),
                  "vertex.generateContent")
    /\ UNCHANGED << process, store >>

InteractionEntry(loc) ==
    [type |-> "interaction", query |-> loc.query, response |-> loc.response,
     model |-> loc.model, timestamp |-> ServerTimestamp, relevanceScore |-> 1,
     contextUsed |-> loc.context # << >>]

\* variant: a failure of generateContent is caught and the handler goes on
\* with an empty response
AiQueryGenerateReturnsSwallowing ==
  \E i \in Slots :
    /\ At(i, "aiQuery", "generate")
    /\ \/ Suspend(i, "ok", "persist",
                  [handlers[i].loc EXCEPT !.response = << "answer" >>],
                  "firestore.memory.add")
       \/ Suspend(i, "rejected", "persist", handlers[i].loc, "firestore.memory.add")
    /\ UNCHANGED << process, store >>

\* generateContent resolves and the interaction is sent to the store, or it
\* rejects and the outer catch answers 500
AiQueryGenerateReturns ==
  \E i \in Slots :
    /\ At(i, "aiQuery", "generate")
    /\ \/ Suspend(i, "ok", "persist",
                  [handlers[i].loc EXCEPT !.response = << "answer" >>],
                  "firestore.memory.add")
       \/ Finish(i, "rejected", 500,
                 [success |-> FALSE, error |-> "vertex: generateContent failed",
                  timestamp |-> IsoNow])
    /\ UNCHANGED << process, store >>

AiQueryBody(loc) ==
    [success |-> TRUE,
     data |-> [query |-> loc.query, response |-> loc.response, model |-> loc.model,
               contextUsed |-> loc.context # << >>,
               memoriesReferenced |-> Len(loc.memoriesUsed),
               timestamp |-> IsoNow]]

\* variant: the add is not wrapped in its own try, its failure reaches the
\* outer catch
AiQueryPersistReturnsSurfacing ==
  \E i \in Slots :
    /\ At(i, "aiQuery", "persist")
    /\ \/ /\ AcceptsAdd
          /\ memory' = memory \cup {StoredDoc(InteractionEntry(handlers[i].loc),
                                               NextDocId(memory), clock + 1)}
          /\ clock' = clock + 1
          /\ Finish(i, "ok", 200, AiQueryBody(handlers[i].loc))
       \/ /\ UNCHANGED << memory, clock >>
          /\ Finish(i, "rejected", 500,
                    [success |-> FALSE, error |-> "firestore: add failed",
                     timestamp |-> IsoNow])
    /\ UNCHANGED << process, properties, files >>

\* the add resolves, or rejects and is caught; the response is the same
AiQueryPersistReturns ==
  \E i \in Slots :
    /\ At(i, "aiQuery", "persist")
    /\ \/ /\ AcceptsAdd
          /\ memory' = memory \cup {StoredDoc(InteractionEntry(handlers[i].loc),
                                               NextDocId(memory), clock + 1)}
          /\ clock' = clock + 1
          /\ Finish(i, "ok", 200, AiQueryBody(handlers[i].loc))
       \/ /\ UNCHANGED << memory, clock >>
          /\ Finish(i, "rejected", 200, AiQueryBody(handlers[i].loc))
    /\ UNCHANGED << process, properties, files >>

----------------------------------------------------------------------------
(* POST /api/memory/store, GET /api/memory/search *)

\* the properties `keys` of o that are defined
Pick(o, keys) == [k \in DOMAIN o \cap keys |-> o[k]]

\* variant: the tags of the request are dropped
MemoryEntryNoTags(body) ==
    Merge(Pick(body, {"type", "content"}),
          [tags |-> << >>,
           metadata |-> OrDefault(body, "metadata", EmptyObj),
           timestamp |-> ServerTimestamp, relevanceScore |-> 1, accessCount |-> 0])

MemoryEntry(body) ==
    Merge(Pick(body, {"type", "content"}),
          [tags |-> OrDefault(body, "tags", << >>),
           metadata |-> OrDefault(body, "metadata", EmptyObj),
           timestamp |-> ServerTimestamp, relevanceScore |-> 1, accessCount |-> 0])

\* variant: if (!type && !content)
MemoryStoreInvalidBoth(body) == Falsy(body, "type", "") /\ Falsy(body, "content", << >>)

\* if (!type || !content)
MemoryStoreInvalid(body) == Falsy(body, "type", "") \/ Falsy(body, "content", << >>)

\* variant: the add is issued before the body is validated
MemoryStoreBeginAddsFirst ==
    /\ Accepting
    /\ \E r \in MemoryStoreRequests :
        IF MemoryStoreInvalid(r.body)
        THEN /\ sent' = << Exchange("memoryStore", r, << "firestore.memory.add" >>,
                                    << >>, EmptyObj, 400,
                                    [success |-> FALSE,
                                     error |-> "Type and content required"]) >>
             /\ UNCHANGED << handlers, store >>
        ELSE /\ Start(r, "memoryStore", "add", [memoryEntry |-> MemoryEntry(r.body)],
                      "firestore.memory.add")
             /\ UNCHANGED store
    /\ UNCHANGED process

MemoryStoreBegin ==
    /\ Accepting
    /\ \E r \in MemoryStoreRequests :
        /\ IF MemoryStoreInvalid(r.body)
           THEN /\ Respond("memoryStore", r, EmptyObj, 400,
                           [success |-> FALSE, error |-> "Type and content required"])
                /\ UNCHANGED handlers
           ELSE Start(r, "memoryStore", "add", [memoryEntry |-> MemoryEntry(r.body)],
                      "firestore.memory.add")
    /\ UNCHANGED << process, store >>

\* variant: the created record is left out of the response
MemoryStoreBodyNoData(docId, memoryEntry) ==
    [success |-> TRUE, timestamp |-> IsoNow]

\* data: { id: docRef.id, ...memoryEntry }
MemoryStoreBody(docId, memoryEntry) ==
    [success |-> TRUE, data |-> Merge([id |-> docId], memoryEntry),
     timestamp |-> IsoNow]

MemoryStoreAddReturns ==
  \E i \in Slots :
    /\ At(i, "memoryStore", "add")
    /\ \/ /\ AcceptsAdd
          /\ memory' = memory \cup {StoredDoc(handlers[i].loc.memoryEntry,
                                               NextDocId(memory), clock + 1)}
          /\ clock' = clock + 1
          /\ Finish(i, "ok", 200, MemoryStoreBody(NextDocId(memory), handlers[i].loc.memoryEntry))
       \/ /\ Finish(i, "rejected", 500, [success |-> FALSE, error |-> "firestore: add failed"])
          /\ UNCHANGED << memory, clock >>
    /\ UNCHANGED << process, properties, files >>

\* variant: the type clause is forgotten
SearchWheresTagsOnly(query) ==
    IF Falsy(query, "tags", "") THEN << >>
    ELSE << [field |-> "tags", op |-> "array-contains", value |-> query.tags] >>

\* if (type) query = query.where('type', '==', type);
\* if (tags) query = query.where('tags', 'array-contains', tags);
SearchWheres(query) ==
    (IF Falsy(query, "type", "") THEN << >>
     ELSE << [field |-> "type", op |-> "==", value |-> query.type] >>)
    \o (IF Falsy(query, "tags", "") THEN << >>
        ELSE << [field |-> "tags", op |-> "array-contains", value |-> query.tags] >>)

\* parseInt(limit), limit = 10 when the parameter is absent
SearchLimit(query) == ParseInt(OrDefault(query, "limit", DefaultSearchLimit))

SearchQuery(query) ==
    [wheres |-> SearchWheres(query), orderBy |-> "timestamp",
     limit |-> SearchLimit(query).val]

\* query.limit(NaN) throws before any call is issued; the catch answers 500
MemorySearchBegin ==
    /\ Accepting
    /\ \E r \in MemorySearchRequests :
        /\ IF SearchLimit(r.query).nan
           THEN /\ Respond("memorySearch", r, EmptyObj, 500,
                           [success |-> FALSE, error |-> "limit is not a valid integer"])
                /\ UNCHANGED handlers
           ELSE Start(r, "memorySearch", "get", [q |-> SearchQuery(r.query)],
                      "firestore.memory.get")
    /\ UNCHANGED << process, store >>

MemorySearchBody(docs) ==
    [success |-> TRUE,
     data |-> [memories |-> SnapshotDocs(docs), count |-> Len(docs)],
     timestamp |-> IsoNow]

MemorySearchReturns ==
  \E i \in Slots :
    /\ At(i, "memorySearch", "get")
    /\ \/ /\ ~QueryRejected(handlers[i].loc.q)
          /\ Finish(i, "ok", 200, MemorySearchBody(RunQuery(memory, handlers[i].loc.q)))
       \/ Finish(i, "rejected", 500, [success |-> FALSE, error |-> "firestore: get failed"])
    /\ UNCHANGED << process, store >>

----------------------------------------------------------------------------
(* POST /api/storage/upload, GET /api/storage/files *)

\* if (!fileName || !content)
StorageUploadInvalid(body) ==
    Falsy(body, "fileName", "") \/ Falsy(body, "content", << >>)

\* { contentType: metadata.contentType || 'application/json', ...metadata }
UploadMetadata(metadata) ==
    Merge([contentType |-> IF Falsy(metadata, "contentType", "")
                           THEN "application/json"
                           ELSE metadata.contentType],
          metadata)

StorageUploadBegin ==
    /\ Accepting
    /\ \E r \in StorageUploadRequests :
        /\ IF StorageUploadInvalid(r.body)
           THEN /\ Respond("storageUpload", r, EmptyObj, 400,
                           [success |-> FALSE, error |-> "fileName and content required"])
                /\ UNCHANGED handlers
           ELSE Start(r, "storageUpload", "save",
                      [fileName |-> OrDefault(r.body, "fileName", "undefined"),
                       metadata |-> UploadMetadata(OrDefault(r.body, "metadata", EmptyObj))],
                      "bucket.file.save")
    /\ UNCHANGED << process, store >>

StorageUploadBody(fileName) ==
    [success |-> TRUE,
     data |-> [fileName |-> fileName, bucket |-> "<bucket>",
               url |-> << "gs://", "<bucket>", "/", fileName >>],
     timestamp |-> IsoNow]

\* file.save replaces the object of that name
StorageUploadSaveReturns ==
  \E i \in Slots :
    /\ At(i, "storageUpload", "save")
    /\ LET loc == handlers[i].loc
       IN  \/ /\ files' = {f \in files : f.name # loc.fileName}
                            \cup {[name |-> loc.fileName]}
              /\ Finish(i, "ok", 200, StorageUploadBody(loc.fileName))
           \/ /\ Finish(i, "rejected", 500, [success |-> FALSE, error |-> "storage: save failed"])
              /\ UNCHANGED files
    /\ UNCHANGED << process, memory, properties, clock >>

MaxResults == 100

StorageFilesBegin ==
    /\ Accepting
    /\ \E r \in StorageFilesRequests :
        /\ Start(r, "storageFiles", "getFiles", EmptyObj, "bucket.getFiles")
    /\ UNCHANGED << process, store >>

\* bucket.getFiles({ maxResults: 100 }): at most 100 of the objects
Listed(objects) ==
    IF Cardinality(objects) <= MaxResults THEN objects
    ELSE CHOOSE S \in SUBSET objects : Cardinality(S) = MaxResults

StorageFilesBody(listed) ==
    [success |-> TRUE,
     data |-> [files |-> listed, bucket |-> "<bucket>", count |-> Cardinality(listed)],
     timestamp |-> IsoNow]

StorageFilesReturns ==
  \E i \in Slots :
    /\ At(i, "storageFiles", "getFiles")
    /\ \/ Finish(i, "ok", 200, StorageFilesBody(Listed(files)))
       \/ Finish(i, "rejected", 500, [success |-> FALSE, error |-> "storage: getFiles failed"])
    /\ UNCHANGED << process, store >>

----------------------------------------------------------------------------
(* GET /api/sheets/investor-data, GET /api/drive/files *)

\* response.data of spreadsheets.values.get: `values` is absent for an
\* empty range
SheetsResponses ==
    {EmptyObj, [values |-> << << "name", "city" >> >>],
     [values |-> << << "name", "city" >>, << "Ann", "Austin" >> >>]}

\* response.data of files.list
DriveResponses == {EmptyObj, [files |-> << >>], [files |-> << "f1" >>]}

SheetsBegin ==
    /\ Accepting
    /\ \E r \in SheetsRequests :
        /\ Start(r, "sheets", "get", EmptyObj, "sheets.values.get")
    /\ UNCHANGED << process, store >>

\* rows = response.data.values || []; headers: rows[0] || []; records: rows.slice(1)
SheetsBody(data) ==
    LET rows == OrDefault(data, "values", << >>)
    IN  [success |-> TRUE,
         data |-> [totalRows |-> Len(rows),
                   headers |-> IF rows = << >> THEN << >> ELSE Head(rows),
                   records |-> IF rows = << >> THEN << >> ELSE Tail(rows),
                   spreadsheetId |-> "<spreadsheetId>"],
         timestamp |-> IsoNow]

SheetsReturns ==
  \E i \in Slots :
    /\ At(i, "sheets", "get")
    /\ \/ \E data \in SheetsResponses : Finish(i, "ok", 200, SheetsBody(data))
       \/ Finish(i, "rejected", 500, [success |-> FALSE, error |-> "sheets: get failed"])
    /\ UNCHANGED << process, store >>

DriveFilesBegin ==
    /\ Accepting
    /\ \E r \in DriveFilesRequests :
        /\ Start(r, "driveFiles", "list", EmptyObj, "drive.files.list")
    /\ UNCHANGED << process, store >>

DriveFilesBody(data) ==
    LET listed == OrDefault(data, "files", << >>)
    IN  [success |-> TRUE, data |-> [files |-> listed, count |-> Len(listed)],
         timestamp |-> IsoNow]

DriveFilesReturns ==
  \E i \in Slots :
    /\ At(i, "driveFiles", "list")
    /\ \/ \E data \in DriveResponses : Finish(i, "ok", 200, DriveFilesBody(data))
       \/ Finish(i, "rejected", 500, [success |-> FALSE, error |-> "drive: list failed"])
    /\ UNCHANGED << process, store >>

----------------------------------------------------------------------------
(* GET and POST /api/firestore/properties *)

\* variant: else if (zipCode)
PropertiesWheresFirstOnly(query) ==
    IF ~Falsy(query, "city", "")
    THEN << [field |-> "city", op |-> "==", value |-> query.city] >>
    ELSE IF ~Falsy(query, "zipCode", "")
    THEN << [field |-> "zipCode", op |-> "==", value |-> query.zipCode] >>
    ELSE << >>

PropertiesWheres(query) ==
    (IF Falsy(query, "city", "") THEN << >>
     ELSE << [field |-> "city", op |-> "==", value |-> query.city] >>)
    \o (IF Falsy(query, "zipCode", "") THEN << >>
        ELSE << [field |-> "zipCode", op |-> "==", value |-> query.zipCode] >>)

PropertiesLimit(query) == ParseInt(OrDefault(query, "limit", DefaultPropertiesLimit))

PropertiesQuery(query) ==
    [wheres |-> PropertiesWheres(query), orderBy |-> "",
     limit |-> PropertiesLimit(query).val]

PropertiesListBegin ==
    /\ Accepting
    /\ \E r \in PropertiesListRequests :
        /\ IF PropertiesLimit(r.query).nan
           THEN /\ Respond("propertiesList", r, EmptyObj, 500,
                           [success |-> FALSE, error |-> "limit is not a valid integer"])
                /\ UNCHANGED handlers
           ELSE Start(r, "propertiesList", "get", [q |-> PropertiesQuery(r.query)],
                      "firestore.properties.get")
    /\ UNCHANGED << process, store >>

PropertiesListBody(docs) ==
    [success |-> TRUE,
     data |-> [properties |-> SnapshotDocs(docs), count |-> Len(docs)],
     timestamp |-> IsoNow]

PropertiesListReturns ==
  \E i \in Slots :
    /\ At(i, "propertiesList", "get")
    /\ \/ /\ ~QueryRejected(handlers[i].loc.q)
          /\ Finish(i, "ok", 200, PropertiesListBody(RunQuery(properties, handlers[i].loc.q)))
       \/ Finish(i, "rejected", 500, [success |-> FALSE, error |-> "firestore: get failed"])
    /\ UNCHANGED << process, store >>

\* { ...req.body, timestamp: serverTimestamp(), updatedAt: serverTimestamp() }
PropertyData(body) ==
    Merge(body, [timestamp |-> ServerTimestamp, updatedAt |-> ServerTimestamp])

PropertiesCreateBegin ==
    /\ Accepting
    /\ \E r \in PropertiesCreateRequests :
        /\ Start(r, "propertiesCreate", "add", [propertyData |-> PropertyData(r.body)],
                 "firestore.properties.add")
    /\ UNCHANGED << process, store >>

\* variant: the response does not carry the id of the stored document
PropertiesCreateBodyOtherId(docId, propertyData) ==
    [success |-> TRUE, data |-> Merge([id |-> docId + 1], propertyData),
     timestamp |-> IsoNow]

PropertiesCreateBody(docId, propertyData) ==
    [success |-> TRUE, data |-> Merge([id |-> docId], propertyData),
     timestamp |-> IsoNow]

PropertiesCreateReturns ==
  \E i \in Slots :
    /\ At(i, "propertiesCreate", "add")
    /\ \/ /\ AcceptsAdd
          /\ properties' = properties \cup {StoredDoc(handlers[i].loc.propertyData,
                                                       NextDocId(properties), clock + 1)}
          /\ clock' = clock + 1
          /\ Finish(i, "ok", 200, PropertiesCreateBody(NextDocId(properties),
                                                 handlers[i].loc.propertyData))
       \/ /\ Finish(i, "rejected", 500, [success |-> FALSE, error |-> "firestore: add failed"])
          /\ UNCHANGED << properties, clock >>
    /\ UNCHANGED << process, memory, files >>

----------------------------------------------------------------------------
(* GET /api/real-estate/overview *)

OverviewBegin ==
    /\ Accepting
    /\ \E r \in OverviewRequests :
        /\ Start(r, "overview", "countProperties",
                 [totalProperties |-> 0, totalMemories |-> 0],
                 "firestore.properties.count")
    /\ UNCHANGED << process, store >>

\* the count resolves, or rejects and is caught: the total stays 0
OverviewPropertiesReturns ==
  \E i \in Slots :
    /\ At(i, "overview", "countProperties")
    /\ \/ Suspend(i, "ok", "countMemories",
                  [handlers[i].loc EXCEPT !.totalProperties = Cardinality(properties)],
                  "firestore.memory.count")
       \/ Suspend(i, "rejected", "countMemories", handlers[i].loc,
                  "firestore.memory.count")
    /\ UNCHANGED << process, store >>

\* variant: the two counts change places
OverviewBodySwapped(totalProperties, totalMemories, env) ==
    [success |-> TRUE,
     data |-> [totalProperties |-> totalMemories, totalMemories |-> totalProperties,
               systemHealth |-> [environment |-> env]],
     timestamp |-> IsoNow]

OverviewBody(totalProperties, totalMemories, env) ==
    [success |-> TRUE,
     data |-> [totalProperties |-> totalProperties, totalMemories |-> totalMemories,
               activeLeads |-> 342, hotDeals |-> 23, marketScore |-> "8.5",
               aiStatus |-> [vertexAI |-> "active", firestore |-> "active",
                             cloudStorage |-> "active", rag |-> "active",
                             googleSheets |-> "active", googleDrive |-> "active"],
               systemHealth |-> [uptime |-> "<uptime>", memory |-> "<memoryUsage>",
                                 environment |-> env]],
     timestamp |-> IsoNow]

OverviewMemoriesReturns ==
  \E i \in Slots :
    /\ At(i, "overview", "countMemories")
    /\ LET loc == handlers[i].loc
       IN  \/ Finish(i, "ok", 200, OverviewBody(loc.totalProperties, Cardinality(memory), nodeEnv))
           \/ Finish(i, "rejected", 200,
                     OverviewBody(loc.totalProperties, loc.totalMemories, nodeEnv))
    /\ UNCHANGED << process, store >>

----------------------------------------------------------------------------

Init ==
    /\ phase = "starting"
    /\ servicesReady = FALSE
    /\ clients = {}
    /\ exitCode = -1
    /\ nodeEnv \in NodeEnvs
    /\ memory \in {{}, SeedMemory}
    /\ properties = {}
    /\ files = {}
    /\ clock = (SeedSize + 1) \div 2
    /\ handlers = << Idle >>
    /\ sent = << >>

Next ==
    \/ InitializeServices
    \/ StartServerExit
    \/ StartServerListen
    \/ StartServerThrows
    \/ Signal
    \/ CorsPreflight
    \/ GlobalFallback
    \/ NotFound
    \/ Health
    \/ StatusBegin
    \/ AiQueryBegin
    \/ MemoryStoreBegin
    \/ MemorySearchBegin
    \/ StatusFirestoreReturns
    \/ StatusStorageReturns
    \/ AiQueryFetchReturns
    \/ AiQueryGenerateReturns
    \/ AiQueryPersistReturns
    \/ MemoryStoreAddReturns
    \/ MemorySearchReturns
    \/ StorageUploadBegin
    \/ StorageUploadSaveReturns
    \/ StorageFilesBegin
    \/ StorageFilesReturns
    \/ SheetsBegin
    \/ SheetsReturns
    \/ DriveFilesBegin
    \/ DriveFilesReturns
    \/ PropertiesListBegin
    \/ PropertiesListReturns
    \/ PropertiesCreateBegin
    \/ PropertiesCreateReturns
    \/ OverviewBegin
    \/ OverviewPropertiesReturns
    \/ OverviewMemoriesReturns

Spec == Init /\ [][Next]_vars

\* the server over a properties collection that already holds documents
InitProperties ==
    /\ phase = "starting"
    /\ servicesReady = FALSE
    /\ clients = {}
    /\ exitCode = -1
    /\ nodeEnv \in NodeEnvs
    /\ memory = {}
    /\ properties \in {SeedProperties(n) : n \in PropertySeedSizes}
    /\ files = {}
    /\ clock = (SeedSize + 1) \div 2
    /\ handlers = << Idle >>
    /\ sent = << >>

NextProperties ==
    \/ InitializeServices
    \/ StartServerExit
    \/ StartServerListen
    \/ StartServerThrows
    \/ Signal
    \/ PropertiesListBegin
    \/ PropertiesListReturns
    \/ PropertiesCreateBegin
    \/ PropertiesCreateReturns

PropertiesSpec == InitProperties /\ [][NextProperties]_vars

\* the server with two requests in flight at a time, over the routes that
\* write the memory collection, and GET /health
InitInterleaved ==
    /\ phase = "starting"
    /\ servicesReady = FALSE
    /\ clients = {}
    /\ exitCode = -1
    /\ nodeEnv = "production"
    /\ memory = SeedMemory
    /\ properties = {}
    /\ files = {}
    /\ clock = (SeedSize + 1) \div 2
    /\ handlers = << Idle, Idle >>
    /\ sent = << >>

NextInterleaved ==
    \/ InitializeServices
    \/ StartServerExit
    \/ StartServerListen
    \/ StartServerThrows
    \/ Signal
    \/ Health
    \/ AiQueryBegin
    \/ AiQueryFetchReturns
    \/ AiQueryGenerateReturns
    \/ AiQueryPersistReturns
    \/ MemoryStoreBegin
    \/ MemoryStoreAddReturns

SpecInterleaved == InitInterleaved /\ [][NextInterleaved]_vars

----------------------------------------------------------------------------
(* Properties *)

Responses == {sent[k] : k \in DOMAIN sent}

AllHandles == {"firestore", "storage", "bucket", "vertex", "sheets", "drive"}

\* the (method, path) pairs the server registers a route for
Registered ==
    {<< "GET", "/health" >>, << "GET", "/api/status" >>,
     << "POST", "/api/ai/query" >>, << "POST", "/api/memory/store" >>,
     << "GET", "/api/memory/search" >>, << "POST", "/api/storage/upload" >>,
     << "GET", "/api/storage/files" >>, << "GET", "/api/sheets/investor-data" >>,
     << "GET", "/api/drive/files" >>, << "GET", "/api/firestore/properties" >>,
     << "POST", "/api/firestore/properties" >>,
     << "GET", "/api/real-estate/overview" >>}

\* the decimal numeral of a natural number, as it appears in a query string
RECURSIVE Numeral(_)
Numeral(n) ==
    IF n < 10 THEN << Digits[n + 1] >>
    ELSE Numeral(n \div 10) \o << Digits[(n % 10) + 1] >>

Min(a, b) == IF a < b THEN a ELSE b

\* C1 as stated: every response of a route, of the 404 handler and of the
\* global fallback carries a boolean success, a timestamp, data exactly when
\* success is true and error exactly when success is false.
C1_EnvelopeOnEveryResponse ==
    \A x \in Responses :
        x.route # "preflight" =>
            /\ Has(x.body, "success")
            /\ x.body.success \in BOOLEAN
            /\ Has(x.body, "timestamp")
            /\ Has(x.body, "data") <=> x.body.success
            /\ Has(x.body, "error") <=> ~x.body.success

\* the responses that carry a top-level timestamp
CarriesTimestamp(x) ==
    \/ x.route \in {"health", "status", "notFound", "fallback"}
    \/ x.route = "aiQuery" /\ x.status = 500
    \/ x.route # "aiQuery" /\ x.status = 200

\* C1 (amended): every response of a route other than GET /health and GET
\* /api/status, of the 404 handler and of the global fallback carries a
\* boolean success, data exactly when success is true and error exactly
\* when success is false.  The /health and /api/status responses carry
\* status and timestamp and none of success, data, error.  A top-level
\* timestamp is carried by the /health, /api/status, 404 and fallback
\* responses, by the 500 of the AI query and by every 200 except the AI
\* query's (its timestamp is inside data); the 400 responses and the 500
\* responses of the other routes carry none.
C1_Envelope ==
    \A x \in Responses :
        x.route # "preflight" =>
            /\ IF x.route \in {"health", "status"}
               THEN /\ Has(x.body, "status")
                    /\ DOMAIN x.body \cap {"success", "data", "error"} = {}
               ELSE /\ Has(x.body, "success")
                    /\ x.body.success \in BOOLEAN
                    /\ Has(x.body, "data") <=> x.body.success
                    /\ Has(x.body, "error") <=> ~x.body.success
                    /\ x.body.success <=> x.status = 200
            /\ Has(x.body, "timestamp") <=> CarriesTimestamp(x)
            /\ x.route = "aiQuery" /\ x.status = 200 => Has(x.body.data, "timestamp")

\* a collaborator failure answered 500 with success false and no timestamp
C1_Witness ==
    \E x \in Responses :
        /\ x.route = "memoryStore"
        /\ x.status = 500
        /\ x.results = << "rejected" >>
        /\ ~x.body.success

\* the fields each validating route requires
RequiredFields(route) ==
    CASE route = "aiQuery" -> {"query"}
      [] route = "memoryStore" -> {"type", "content"}
      [] route = "storageUpload" -> {"fileName", "content"}
      [] OTHER -> {}

\* C2: a request to POST /api/ai/query, POST /api/memory/store or POST
\* /api/storage/upload whose body lacks a required field is answered 400
\* with success false and no data field; its handler never gets past the
\* validation.
C2_MissingFieldIs400 ==
    /\ \A x \in Responses :
        RequiredFields(x.route) \ DOMAIN x.req.body # {} =>
            /\ x.status = 400
            /\ x.body.success = FALSE
            /\ ~Has(x.body, "data")
    /\ \A i \in Slots :
        handlers[i] # Idle =>
            RequiredFields(handlers[i].route) \subseteq DOMAIN handlers[i].req.body

\* a memory-store request with a type and no content has been answered
C2_Witness ==
    \E x \in Responses :
        /\ x.route = "memoryStore"
        /\ Has(x.req.body, "type")
        /\ ~Has(x.req.body, "content")
        /\ x.status = 400

\* C3: a 200 of POST /api/memory/store (type and content set, the insert
\* succeeded) returns the type, content, tags and metadata of the request
\* (tags defaulting to the empty sequence, metadata to the empty mapping),
\* a generated id, relevanceScore 1.0 and accessCount 0, and the step adds
\* exactly one document to the memory collection: the one with that id and
\* those fields.  No other document changes.
C3_StoreReturnsAndInserts ==
    [][\A k \in DOMAIN sent' :
        LET x == sent'[k]
            b == x.req.body
            d == x.body.data
        IN  x.route = "memoryStore" /\ x.status = 200 =>
                /\ Has(b, "type") /\ Has(b, "content")
                /\ d.type = b.type
                /\ d.content = b.content
                /\ d.tags = OrDefault(b, "tags", << >>)
                /\ d.metadata = OrDefault(b, "metadata", EmptyObj)
                /\ d.relevanceScore = 1
                /\ d.accessCount = 0
                /\ Has(d, "id")
                /\ d.id \notin UsedIds(memory)
                /\ memory \subseteq memory'
                /\ Cardinality(memory' \ memory) = 1
                /\ \A doc \in memory' \ memory :
                    /\ doc.docId = d.id
                    /\ doc.type = b.type
                    /\ doc.content = b.content
                    /\ doc.tags = OrDefault(b, "tags", << >>)
                    /\ doc.metadata = OrDefault(b, "metadata", EmptyObj)
                    /\ doc.relevanceScore = 1
                    /\ doc.accessCount = 0
      ]_vars

\* a record stored with tags and no metadata has been returned
C3_Witness ==
    \E x \in Responses :
        /\ x.route = "memoryStore"
        /\ x.status = 200
        /\ Has(x.req.body, "tags")
        /\ ~Has(x.req.body, "metadata")
        /\ \E doc \in memory : doc.docId = x.body.data.id

\* C4: a 200 of GET /api/memory/search returns memory records of the
\* collection in descending timestamp order; at most N when limit is the
\* numeral N and at most 10 when limit is omitted; all of type X when
\* type=X is given; all with tags containing T when tags=T is given.
C4_SearchFiltersOrdersLimits ==
    \A x \in Responses :
        x.route = "memorySearch" /\ x.status = 200 =>
            LET q == x.req.query
                ms == x.body.data.memories
            IN  /\ \A i \in DOMAIN ms : ms[i] \in {SnapshotDoc(d) : d \in memory}
                /\ \A i, j \in DOMAIN ms : i # j => ms[i].id # ms[j].id
                /\ \A n \in 0..(SeedSize + MaxAdds + 1) :
                    Has(q, "limit") /\ q.limit = Numeral(n) => Len(ms) <= n
                /\ ~Has(q, "limit") => Len(ms) <= 10
                /\ Has(q, "type") /\ q.type # "" =>
                    \A i \in DOMAIN ms : ms[i].type = q.type
                /\ Has(q, "tags") /\ q.tags # "" =>
                    \A i \in DOMAIN ms : Has(ms[i], "tags") /\ q.tags \in Range(ms[i].tags)
                /\ \A i, j \in DOMAIN ms : i < j => ms[i].timestamp >= ms[j].timestamp
                /\ x.body.data.count = Len(ms)

\* a search by type whose limit cut the result short
C4_Witness ==
    \E x \in Responses :
        /\ x.route = "memorySearch"
        /\ x.status = 200
        /\ Has(x.req.query, "type")
        /\ Has(x.req.query, "limit")
        /\ x.req.query.limit = Numeral(3)
        /\ Len(x.body.data.memories) = 3
        /\ Cardinality({d \in memory : d.type = x.req.query.type}) > 3

\* the AI-query exchanges and running handlers whose request sets useMemory
\* to false
WithoutMemory(h) ==
    /\ h.route = "aiQuery"
    /\ Has(h.req.body, "useMemory")
    /\ h.req.body.useMemory = FALSE

\* C5: POST /api/ai/query with useMemory false never issues a memory fetch,
\* the prompt handed to the generative model is the raw query, and the 200
\* response reports contextUsed false and memoriesReferenced 0.
C5_NoFetchWithoutMemory ==
    /\ \A i \in Slots :
        handlers[i] # Idle /\ WithoutMemory(handlers[i]) =>
            /\ "firestore.memory.get" \notin Range(handlers[i].calls)
            /\ handlers[i].loc.prompt = handlers[i].req.body.query
    /\ \A x \in Responses :
        WithoutMemory(x) =>
            /\ "firestore.memory.get" \notin Range(x.calls)
            /\ x.status # 400 =>
                /\ x.calls[1] = "vertex.generateContent"
                /\ x.loc.prompt = x.req.body.query
            /\ x.status = 200 =>
                /\ x.body.data.contextUsed = FALSE
                /\ x.body.data.memoriesReferenced = 0

\* an answer given without context while the collection holds records
C5_Witness ==
    \E x \in Responses :
        /\ WithoutMemory(x)
        /\ x.status = 200
        /\ memory # {}
        /\ \E d \in memory : Has(d, "content")

\* C6: POST /api/ai/query with useMemory true, issued when the memory
\* collection holds at least one record (interaction records written by the
\* AI-query route included) and answered 200 after a successful fetch,
\* reports contextUsed true and memoriesReferenced = min(5, number of
\* records).
C6_ContextUsedWithMemory ==
    \A x \in Responses :
        /\ x.route = "aiQuery"
        /\ x.status = 200
        /\ Has(x.req.body, "useMemory")
        /\ x.req.body.useMemory = TRUE
        /\ x.results[1] = "ok"
        /\ x.loc.memoriesTotal >= 1
        => /\ x.body.data.contextUsed = TRUE
           /\ x.body.data.memoriesReferenced = Min(5, x.loc.memoriesTotal)

\* C7 as stated: GET /api/status answers 200 even when every probe fails,
\* and then every component field is "error"; no component is "checking".
C7_AllComponentsError ==
    \A x \in Responses :
        x.route = "status" =>
            /\ x.status = 200
            /\ \A c \in DOMAIN x.body.components : x.body.components[c] # "checking"
            /\ x.results = << "rejected", "rejected" >> =>
                \A c \in DOMAIN x.body.components : x.body.components[c] = "error"

\* C7 (amended): GET /api/status answers 200 whatever the two probes do;
\* firestore and storage are "error" exactly when their probe failed and
\* "active" otherwise; api is always "healthy", and vertexAI, sheets and
\* drive, which are not probed, are "active" in every response of a
\* listening server; no component is "checking".
C7_StatusComponents ==
    \A x \in Responses :
        x.route = "status" =>
            LET c == x.body.components
            IN  /\ x.status = 200
                /\ DOMAIN c = {"api", "firestore", "storage", "vertexAI", "sheets", "drive"}
                /\ \A k \in DOMAIN c : c[k] # "checking"
                /\ c.firestore = IF x.results[1] = "rejected" THEN "error" ELSE "active"
                /\ c.storage = IF x.results[2] = "rejected" THEN "error" ELSE "active"
                /\ c.api = "healthy"
                /\ c.vertexAI = "active" /\ c.sheets = "active" /\ c.drive = "active"

\* a status response written after both probes failed
C7_Witness ==
    \E x \in Responses :
        /\ x.route = "status"
        /\ x.results = << "rejected", "rejected" >>
        /\ x.status = 200

\* startup with the step the scheduler guarantees: once initializeServices
\* has returned, startServer runs on to process.exit(1) or to app.listen
FairSpec ==
    Spec /\ WF_vars(StartServerExit) /\ WF_vars(StartServerListen \/ StartServerThrows)

\* C8: the server listens only after every client was constructed and
\* initializeServices returned true; when the construction of a client
\* fails the process never listens and exits with status 1.
C8_ListensOnlyWhenInitialized ==
    /\ [](phase = "listening" => servicesReady /\ clients = AllHandles)
    /\ [][phase = "initialized" /\ clients # AllHandles =>
            phase' = "exited" /\ exitCode' = 1]_vars
    /\ [](phase = "exited" /\ clients # AllHandles => exitCode = 1)
    /\ (phase = "initialized" /\ clients # AllHandles)
            ~> (phase = "exited" /\ exitCode = 1)

\* the process has exited with status 1 after some, not all, clients were
\* constructed
C8_Witness ==
    /\ phase = "exited"
    /\ exitCode = 1
    /\ clients # {}
    /\ clients # AllHandles

\* C9 as stated: the fallback answers 500 and includes the error message
\* for every environment label other than 'production'.
C9_MessageOutsideProduction ==
    \A x \in Responses :
        x.route = "fallback" =>
            /\ x.status = 500
            /\ x.body.success = FALSE
            /\ Has(x.body, "message") <=> nodeEnv # "production"

\* C9 (amended): an error passed to the global fallback is answered 500
\* with success false and error "Internal server error"; the underlying
\* message is included only when the environment label is 'development',
\* and suppressed for every other label ('production' and any other).
C9_MessageOnlyInDevelopment ==
    \A x \in Responses :
        x.route = "fallback" =>
            /\ x.status = 500
            /\ x.body.success = FALSE
            /\ x.body.error = "Internal server error"
            /\ Has(x.body, "message") <=> nodeEnv = "development"
            /\ Has(x.body, "message") => x.body.message = x.loc.message
            /\ x.calls = << >>

\* the fallback has answered under a label that is neither 'production'
\* nor 'development'
C9_Witness ==
    \E x \in Responses :
        /\ x.route = "fallback"
        /\ nodeEnv = "staging"
        /\ ~Has(x.body, "message")

\* the 404 response
IsNotFound(x) ==
    /\ x.status = 404
    /\ x.body = [success |-> FALSE, error |-> "Endpoint not found",
                 path |-> x.req.path, timestamp |-> IsoNow]
    /\ x.calls = << >>

\* C10 as stated: a request whose method and path match no registered
\* route is answered 404 with success false, error "Endpoint not found",
\* the path and a timestamp, and issues no collaborator call.
C10_UnmatchedIs404 ==
    \A x \in Responses :
        << x.req.method, x.req.path >> \notin Registered => IsNotFound(x)

\* C10 (amended): a request other than OPTIONS, with a body the JSON
\* parser accepts, whose method and path match no registered route under
\* the router's matching (HEAD counts as GET; case and one trailing slash
\* are ignored) is answered 404 with success false, error "Endpoint not
\* found", the requested path and a timestamp, and no collaborator call is
\* issued for it.  An OPTIONS request is answered 204 by the cross-origin
\* middleware and a body the parser rejects is answered 500 by the global
\* fallback, whatever the path.
C10_UnmatchedIs404UnlessIntercepted ==
    /\ \A x \in Responses :
        LET matched == << RouteMethod(x.req.method), RoutePath(x.req.path) >> \in Registered
        IN  /\ x.req.method # "OPTIONS" /\ x.req.json = "ok" /\ ~matched => IsNotFound(x)
            /\ x.req.method = "OPTIONS" => x.status = 204 /\ x.calls = << >>
            /\ x.req.method # "OPTIONS" /\ x.req.json # "ok" =>
                x.status = 500 /\ x.calls = << >>
    /\ \A i \in Slots :
        handlers[i] # Idle =>
            << RouteMethod(handlers[i].req.method), RoutePath(handlers[i].req.path) >>
                \in Registered

\* a registered path requested with a method it has no route for
C10_Witness ==
    \E x \in Responses :
        /\ x.req.method = "POST"
        /\ x.req.path = "/health"
        /\ x.status = 404
        /\ x.body.path = "/health"

\* the default limit of GET /api/firestore/properties
DefaultPageSize == 50

\* the ids of the records in a response
IdsOf(records) == {records[i].id : i \in DOMAIN records}

\* the documents of the properties collection with city c
InCity(c) == {d \in properties : Has(d, "city") /\ d.city = c}

\* a 200 of POST /api/firestore/properties returns an id, the fields of the
\* body (timestamp and updatedAt being the server's) and the two
\* timestamps, and the document is stored under that id
CreateStoresUnderReturnedId ==
    \A k \in DOMAIN sent' :
        LET x == sent'[k]
        IN  x.route = "propertiesCreate" /\ x.status = 200 =>
                /\ Has(x.body.data, "id")
                /\ Has(x.body.data, "timestamp") /\ Has(x.body.data, "updatedAt")
                /\ x.body.data.id \notin UsedIds(properties)
                /\ \A f \in DOMAIN x.req.body \ SentinelKeys :
                    x.body.data[f] = x.req.body[f]
                /\ \E d \in properties' :
                    /\ d.docId = x.body.data.id
                    /\ \A f \in DOMAIN x.req.body \ SentinelKeys : d[f] = x.req.body[f]

\* a 200 of GET /api/firestore/properties?city=C
ListByCity(x) ==
    /\ x.route = "propertiesList"
    /\ x.status = 200
    /\ DOMAIN x.req.query = {"city"}

\* C11 as stated: after a successful POST /api/firestore/properties with
\* city C (the documents of this run hold the ids above SeedSize), every
\* later 200 of GET /api/firestore/properties?city=C includes a record
\* with that id.
C11_CreatedIsListed ==
    \A x \in Responses :
        ListByCity(x) =>
            \A d \in InCity(x.req.query.city) :
                d.docId > SeedSize => d.docId \in IdsOf(x.body.data.properties)

\* C11 (amended): after a successful POST /api/firestore/properties with
\* city C, every later 200 of GET /api/firestore/properties?city=C includes
\* a record with the returned id as long as the collection holds at most 50
\* records (the default limit) with city C; with more, the response holds
\* 50 of them and may leave the new record out.
C11_CreatedIsListedWithinLimit ==
    /\ [][CreateStoresUnderReturnedId]_vars
    /\ [](\A x \in Responses :
            ListByCity(x) /\ Cardinality(InCity(x.req.query.city)) <= DefaultPageSize =>
                \A d \in InCity(x.req.query.city) :
                    d.docId > SeedSize => d.docId \in IdsOf(x.body.data.properties))

\* the 50th record with the city was created in this run and is listed
C11_Witness ==
    \E x \in Responses :
        /\ ListByCity(x)
        /\ Cardinality(InCity(x.req.query.city)) = DefaultPageSize
        /\ \E d \in InCity(x.req.query.city) :
            d.docId > SeedSize /\ d.docId \in IdsOf(x.body.data.properties)

\* the documents a query string selects
Selected(q) ==
    {d \in properties :
        /\ Has(q, "city") /\ q.city # "" => Has(d, "city") /\ d.city = q.city
        /\ Has(q, "zipCode") /\ q.zipCode # "" => Has(d, "zipCode") /\ d.zipCode = q.zipCode}

\* the limit a query string asks for
LimitOf(q) ==
    IF Has(q, "limit") THEN CHOOSE n \in 0..99 : Numeral(n) = q.limit
    ELSE DefaultPageSize

\* C12: the record list of a 200 of GET /api/firestore/properties is a
\* function of the stored collection and of the city / zipCode / limit
\* parameters (the selected documents in ascending id order, cut at the
\* limit), so repeating the request without an intervening write returns
\* the same records; and no step of the GET handler changes a stored
\* record.
C12_ListIsRepeatable ==
    /\ [](\A x \in Responses :
            x.route = "propertiesList" /\ x.status = 200 =>
                LET q == x.req.query
                    recs == x.body.data.properties
                IN  /\ \A i \in DOMAIN recs :
                        recs[i] \in {SnapshotDoc(d) : d \in Selected(q)}
                    /\ \A i, j \in DOMAIN recs : i < j => recs[i].id < recs[j].id
                    /\ Len(recs) = Min(LimitOf(q), Cardinality(Selected(q)))
                    /\ \A d \in Selected(q) :
                        d.docId \notin IdsOf(recs) =>
                            \A id \in IdsOf(recs) : id < d.docId)
    /\ [][(\/ \E k \in DOMAIN sent' : sent'[k].route = "propertiesList"
           \/ \E i \in Slots : /\ handlers'[i] # Idle
                               /\ handlers'[i].route = "propertiesList")
          => UNCHANGED << memory, properties, files >>]_vars

\* a list cut short by its limit
C12_Witness ==
    \E x \in Responses :
        /\ x.route = "propertiesList"
        /\ x.status = 200
        /\ Has(x.req.query, "limit")
        /\ Len(x.body.data.properties) = 1
        /\ Cardinality(Selected(x.req.query)) > 1

\* C13: GET /api/real-estate/overview always answers 200 with success
\* true; both count calls are issued whatever the first one does; a count
\* that fails is reported as 0 and the other is the collection's size.
C13_OverviewCountsIndependent ==
    \A x \in Responses :
        x.route = "overview" =>
            /\ x.status = 200
            /\ x.body.success = TRUE
            /\ x.calls = << "firestore.properties.count", "firestore.memory.count" >>
            /\ Len(x.results) = 2
            /\ x.body.data.totalProperties =
                    IF x.results[1] = "ok" THEN Cardinality(properties) ELSE 0
            /\ x.body.data.totalMemories =
                    IF x.results[2] = "ok" THEN Cardinality(memory) ELSE 0

\* the property count failed over a non-empty collection and the memory
\* count is still reported
C13_Witness ==
    \E x \in Responses :
        /\ x.route = "overview"
        /\ x.results = << "rejected", "ok" >>
        /\ properties # {}
        /\ x.body.data.totalProperties = 0
        /\ x.body.data.totalMemories > 0

\* the AI-query exchanges that passed the validation
AiAnswered(x) == x.route = "aiQuery" /\ x.status # 400

\* how the call `name` of an exchange or of a running handler ended ("none"
\* when it was not issued, "pending" when it has not returned)
ResultOf(x, name) ==
    IF \E i \in DOMAIN x.calls : x.calls[i] = name
    THEN LET n == CHOOSE i \in DOMAIN x.calls : x.calls[i] = name
         IN  IF n \in DOMAIN x.results THEN x.results[n] ELSE "pending"
    ELSE "none"

\* C16: for POST /api/ai/query with a query present the status depends
\* only on the model invocation: when it succeeds the response is 200 with
\* success true, also when the memory fetch failed (then the context is
\* empty, contextUsed false and memoriesReferenced 0) and also when
\* persisting the interaction record failed.
C16_OnlyModelDecides ==
    \A x \in Responses :
        AiAnswered(x) =>
            /\ ResultOf(x, "vertex.generateContent") \in {"ok", "rejected"}
            /\ ResultOf(x, "vertex.generateContent") = "ok" =>
                /\ x.status = 200
                /\ x.body.success = TRUE
                /\ x.body.data.response = x.loc.response
            /\ ResultOf(x, "firestore.memory.get") = "rejected" =>
                /\ x.loc.context = << >>
                /\ x.loc.prompt = x.req.body.query
                /\ x.status = 200 =>
                    /\ x.body.data.contextUsed = FALSE
                    /\ x.body.data.memoriesReferenced = 0

\* answered 200 although both the memory fetch and the persisting failed
C16_Witness ==
    \E x \in Responses :
        /\ AiAnswered(x)
        /\ x.results = << "rejected", "ok", "rejected" >>
        /\ x.status = 200
        /\ memory # {}

\* C17: when the model invocation of POST /api/ai/query fails the response
\* is 500 with success false and the collaborator's error message, the add
\* of the interaction record is never issued and the memory collection is
\* left as it was.
C17_ModelFailureIs500 ==
    [][\A k \in DOMAIN sent' :
        LET x == sent'[k]
        IN  AiAnswered(x) /\ ResultOf(x, "vertex.generateContent") = "rejected" =>
                /\ x.status = 500
                /\ x.body.success = FALSE
                /\ x.body.error = "vertex: generateContent failed"
                /\ ~Has(x.body, "data")
                /\ ResultOf(x, "firestore.memory.add") = "none"
                /\ memory' = memory
      ]_vars

\* the model failed after a successful memory fetch
C17_Witness ==
    \E x \in Responses :
        /\ AiAnswered(x)
        /\ x.results = << "ok", "rejected" >>
        /\ x.status = 500

\* C19: a request answered 400 for a missing required field (AI query,
\* memory store, storage upload) has issued no collaborator call, and the
\* step that answers it leaves the document store, the object store and
\* the running handlers as they were.
C19_RejectedCallsNothing ==
    [][\A k \in DOMAIN sent' :
        sent'[k].status = 400 =>
            /\ sent'[k].route \in {"aiQuery", "memoryStore", "storageUpload"}
            /\ sent'[k].calls = << >>
            /\ sent'[k].results = << >>
            /\ UNCHANGED << memory, properties, files, handlers >>
      ]_vars

\* an upload with a file name and no content has been answered 400
C19_Witness ==
    \E x \in Responses :
        /\ x.route = "storageUpload"
        /\ x.status = 400
        /\ Has(x.req.body, "fileName")
        /\ ~Has(x.req.body, "content")
        /\ x.calls = << >>

\* C14: GET /health answers 200 whatever the collaborators do, also while
\* a call of another request is pending, and issues no collaborator call:
\* its handler never suspends.
C14_HealthCallsNothing ==
    /\ \A x \in Responses :
        x.route = "health" =>
            /\ x.status = 200
            /\ x.calls = << >>
            /\ x.results = << >>
    /\ \A i \in Slots : handlers[i] # Idle => handlers[i].route # "health"

\* /health answered while another request waits for a collaborator
C14_Witness ==
    /\ \E x \in Responses : x.route = "health" /\ x.status = 200
    /\ \E i \in Slots : handlers[i] # Idle /\ Len(handlers[i].results) < Len(handlers[i].calls)

\* the orders in which one AI query issues its calls
AiCallOrders ==
    {<< "firestore.memory.get", "vertex.generateContent", "firestore.memory.add" >>,
     << "vertex.generateContent", "firestore.memory.add" >>}

IsPrefix(s, t) == Len(s) <= Len(t) /\ s = SubSeq(t, 1, Len(s))

\* C15: within one POST /api/ai/query the calls are issued in the order
\* memory fetch (when useMemory), model invocation, persisting; each is
\* issued only when the one before has returned, so at most one call of the
\* request is in flight; the persisting follows a successful invocation
\* only, and the response is sent when no call of the request is pending.
C15_AiCallsSequential ==
    /\ \A i \in Slots :
        handlers[i] # Idle /\ handlers[i].route = "aiQuery" =>
            LET h == handlers[i]
            IN  /\ h.calls # << >>
                /\ \E o \in AiCallOrders : IsPrefix(h.calls, o)
                /\ Len(h.results) = Len(h.calls) - 1
                /\ (h.calls[1] = "firestore.memory.get")
                        <=> OrDefault(h.req.body, "useMemory", TRUE)
                /\ ResultOf(h, "vertex.generateContent") # "rejected"
    /\ \A x \in Responses :
        AiAnswered(x) =>
            /\ x.calls # << >>
            /\ \E o \in AiCallOrders : IsPrefix(x.calls, o)
            /\ Len(x.results) = Len(x.calls)
            /\ x.status = 200 <=> ResultOf(x, "firestore.memory.add") # "none"
            /\ ResultOf(x, "firestore.memory.add") # "none" =>
                ResultOf(x, "vertex.generateContent") = "ok"

\* two AI queries in flight, one of them persisting after its fetch and
\* its invocation have returned
C15_Witness ==
    \E i, j \in Slots :
        /\ i # j
        /\ handlers[i] # Idle /\ handlers[i].route = "aiQuery"
        /\ handlers[j] # Idle /\ handlers[j].route = "aiQuery"
        /\ Len(handlers[i].calls) = 3
        /\ handlers[i].results = << "ok", "ok" >>

\* C18: over every interleaving of requests a memory record is never
\* changed or removed and no id is used twice; a step adds at most one
\* record, and only as the successful add of a POST /api/memory/store or
\* of a POST /api/ai/query, each of which issues one add at most; every
\* record keeps relevanceScore 1 and accessCount 0.
C18_MemoryInsertOnly ==
    /\ [][/\ memory \subseteq memory'
          /\ \A d, e \in memory' : d.docId = e.docId => d = e
          /\ Cardinality(memory' \ memory) <= 1
          /\ memory' # memory =>
                \E k \in DOMAIN sent' :
                    /\ sent'[k].route \in {"memoryStore", "aiQuery"}
                    /\ sent'[k].status = 200
                    /\ ResultOf(sent'[k], "firestore.memory.add") = "ok"
                    /\ Cardinality({n \in DOMAIN sent'[k].calls :
                            sent'[k].calls[n] = "firestore.memory.add"}) = 1
       ]_vars
    /\ [](\A d \in memory :
            /\ d.relevanceScore = 1
            /\ Has(d, "accessCount") => d.accessCount = 0)

\* a record was added while another request was in flight, and every
\* record the collection started with is still there
C18_Witness ==
    /\ SeedMemory \subseteq memory
    /\ Added(memory) >= 1
    /\ \E i \in Slots : handlers[i] # Idle /\ handlers[i].route \in {"memoryStore", "aiQuery"}
    /\ \E x \in Responses : ResultOf(x, "firestore.memory.add") = "ok"

====
